---- MODULE Spec2Model ----
(***************************************************************************)
(* Verification model of the granalytich-solutions-website repository:     *)
(*   - screenshot-compare.js     (Puppeteer screenshot script)             *)
(*   - stackbit.config.ts        (content-source model declaration)        *)
(*   - the logo detection report (pipeline results and client portfolio)   *)
(*   - FILE_MOVEMENT_LOG.md      (archive cleanup)                         *)
(***************************************************************************)
EXTENDS Integers, Sequences, FiniteSets, TLC

(***************************************************************************)
(* Part 1.  screenshot-compare.js                                          *)
(***************************************************************************)

VARIABLES
    pc,          \* statement the script is at
    inflight,    \* browser operations / timers started and not yet settled
    awaiting,    \* the operation the async function is suspended on, or "none"
    browser,     \* "none" | "open" | "closed"
    closeCalls,  \* number of browser.close() calls
    pageInRoot,  \* index-v3.html exists in __dirname
    viewport,    \* viewport set on the page, <<w, h>> or <<>>
    servicesGrid,\* result of page.$('.services-grid'): "unset" | "null" | "element"
    boundingBox, \* result of servicesGrid.boundingBox(): "unset" | "null" | "box"
    scrolledIntoView, \* the in-page callback found .services-grid: "unset" | "no" | "yes"
    files,       \* files written by this run
    stdout,      \* messages printed with console.log, in order
    stderr,      \* number of values printed with console.error
    promise,     \* state of the promise returned by takeScreenshot()
    trace        \* operations started, in order

scriptVars == <<pc, inflight, awaiting, browser, closeCalls, pageInRoot, viewport,
                servicesGrid, boundingBox, scrolledIntoView, files, stdout, stderr,
                promise, trace>>

\* The content source and the _data/clients.yml document.
VARIABLES
    registered,  \* indices of the models the content source has registered
    owner,       \* content file -> names of the registered models declared on it
    clientsYml   \* the document of the Clients model: tier -> list of items

siteVars == <<registered, owner, clientsYml>>

\* Detection and assignment as the logo detection report records them.
VARIABLES
    identified,  \* regions the detector has identified
    assigned,    \* portfolio entries assigned so far
    assignment,  \* set of <<company, logo file number>> pairs
    sectorCount  \* sector -> logos listed under it so far

reportVars == <<identified, assigned, assignment, sectorCount>>

\* The logo-extraction pipeline.
VARIABLES
    stage,       \* the step the pipeline is at
    stagesRun,   \* the steps completed, in order
    blobs,       \* detected blobs: sequence of [box, density, y]
    rows,        \* clustering result: blob index -> row
    crops,       \* cropped regions: sequence of [w, h, density]
    verdict,     \* validation result: crop index -> [score, ok]
    written      \* crop indices for which a PNG was written

pipeVars == <<stage, stagesRun, blobs, rows, crops, verdict, written>>

\* The archive cleanup recorded in FILE_MOVEMENT_LOG.md.
VARIABLES
    moved,       \* entries of "File Movements" applied so far
    kept,        \* entries of "Files Kept in Root" recorded so far
    location     \* file -> set of final locations the log gives it

cleanupVars == <<moved, kept, location>>

vars == <<scriptVars, siteVars, reportVars, pipeVars, cleanupVars>>

\* A step of one part leaves the state of the others alone.
ScriptStep == UNCHANGED <<siteVars, reportVars, pipeVars, cleanupVars>>
SiteStep == UNCHANGED <<scriptVars, reportVars, pipeVars, cleanupVars>>
ReportStep == UNCHANGED <<scriptVars, siteVars, pipeVars, cleanupVars>>
PipeStep == UNCHANGED <<scriptVars, siteVars, reportVars, cleanupVars>>
CleanupStep == UNCHANGED <<scriptVars, siteVars, reportVars, pipeVars>>

ViewportWidth == 1400
ViewportHeight == 900

SectionFile == "current-services-section.png"
FullPageFile == "current-full-page.png"

MsgSection == "saved current-services-section.png"
MsgFullPage == "saved current-full-page.png"
MsgAnalysis == "ANALYSIS"
MsgFilesCreated == "Files created"

\* The operations of the run that settle asynchronously.
BrowserOps == {"launch", "newPage", "setViewport", "goto", "evaluate", "$",
               "boundingBox", "screenshotSection", "screenshotFull", "close"}
TimerOps == {"wait1", "wait2"}
Ops == BrowserOps \cup TimerOps

\* Mutation of Awaited: the clipped page.screenshot call is not awaited.
AwaitedExceptSectionShot(op) == op # "screenshotSection"

\* Mutation of Awaited: the full-page page.screenshot call is not awaited.
AwaitedExceptFullShot(op) == op # "screenshotFull"

\* Every call in takeScreenshot is preceded by `await`.
Awaited(op) == op \in Ops

\* Mutation of NextPc: the page is navigated before its viewport is set.
NextPcGotoFirst(op) ==
    CASE op = "launch" -> "newPage"
      [] op = "newPage" -> "goto"
      [] op = "goto" -> "setViewport"
      [] op = "setViewport" -> "wait1"
      [] op = "wait1" -> "evaluate"
      [] op = "evaluate" -> "wait2"
      [] op = "wait2" -> "$"
      [] op = "$" -> "ifServicesGrid"
      [] op = "boundingBox" -> "screenshotSection"
      [] op = "screenshotSection" -> "logSection"
      [] op = "screenshotFull" -> "logFull"
      [] op = "close" -> "return"

\* Statement following the settlement of op (or its call, when not awaited).
NextPc(op) ==
    CASE op = "launch" -> "newPage"
      [] op = "newPage" -> "setViewport"
      [] op = "setViewport" -> "goto"
      [] op = "goto" -> "wait1"
      [] op = "wait1" -> "evaluate"
      [] op = "evaluate" -> "wait2"
      [] op = "wait2" -> "$"
      [] op = "$" -> "ifServicesGrid"
      [] op = "boundingBox" -> "screenshotSection"
      [] op = "screenshotSection" -> "logSection"
      [] op = "screenshotFull" -> "logFull"
      [] op = "close" -> "return"

\* Side effect of an operation that resolved.
Effect(op) ==
    /\ browser' = CASE op = "launch" -> "open"
                    [] op = "close" -> "closed"
                    [] OTHER -> browser
    /\ viewport' = IF op = "setViewport" THEN <<ViewportWidth, ViewportHeight>>
                   ELSE viewport
    /\ files' = CASE op = "screenshotSection" -> files \cup {SectionFile}
                  [] op = "screenshotFull" -> files \cup {FullPageFile}
                  [] OTHER -> files
    /\ \E found \in {"null", "element"} :
          servicesGrid' = IF op = "$" THEN found ELSE servicesGrid
    /\ \E box \in {"null", "box"} :
          boundingBox' = IF op = "boundingBox" THEN box ELSE boundingBox
    /\ \E grid \in {"no", "yes"} :
          scrolledIntoView' = IF op = "evaluate" THEN grid ELSE scrolledIntoView

\* An operation is called at statement `at`.
Call(at, op) ==
    /\ pc = at
    /\ awaiting = "none"
    /\ promise = "pending"
    /\ inflight' = inflight \cup {op}
    /\ trace' = Append(trace, op)
    /\ closeCalls' = IF op = "close" THEN closeCalls + 1 ELSE closeCalls
    /\ IF Awaited(op)
       THEN awaiting' = op /\ pc' = pc
       ELSE awaiting' = "none" /\ pc' = NextPc(op)
    /\ UNCHANGED <<browser, pageInRoot, viewport, servicesGrid, boundingBox, scrolledIntoView,
                   files, stdout, stderr, promise>>
    /\ ScriptStep

Launch == Call("launch", "launch")
NewPage == Call("newPage", "newPage")
SetViewport == Call("setViewport", "setViewport")
Goto == Call("goto", "goto")
Wait1 == Call("wait1", "wait1")
Evaluate == Call("evaluate", "evaluate")
Wait2 == Call("wait2", "wait2")
Query == Call("$", "$")
BoundingBox == Call("boundingBox", "boundingBox")
ScreenshotSection == boundingBox # "null" /\ Call("screenshotSection", "screenshotSection")
ScreenshotFull == Call("screenshotFull", "screenshotFull")
Close == Call("close", "close")

\* Mutation of CanResolve: the second timer is never given its resolve callback.
CanResolveNoSecondTimer(op) == (op = "goto" => pageInRoot) /\ op # "wait2"

\* goto of a file:// URL resolves only if the file exists.
CanResolve(op) == op = "goto" => pageInRoot

\* An operation in flight resolves.
Resolve(op) ==
    /\ op \in inflight
    /\ CanResolve(op)
    /\ inflight' = inflight \ {op}
    /\ Effect(op)
    /\ IF awaiting = op
       THEN awaiting' = "none" /\ pc' = NextPc(op)
       ELSE UNCHANGED <<awaiting, pc>>
    /\ UNCHANGED <<closeCalls, pageInRoot, stdout, stderr, promise, trace>>
    /\ ScriptStep

\* An operation in flight rejects; a timer never does.
Reject(op) ==
    /\ op \in inflight
    /\ op \in BrowserOps
    /\ inflight' = inflight \ {op}
    /\ IF awaiting = op
       THEN awaiting' = "none" /\ pc' = "thrown" /\ promise' = "rejected"
       ELSE UNCHANGED <<awaiting, pc, promise>>
    /\ UNCHANGED <<browser, closeCalls, pageInRoot, viewport, servicesGrid,
                   boundingBox, scrolledIntoView, files, stdout, stderr, trace>>
    /\ ScriptStep

\* Mutation of IfServicesGrid: without an element the function goes straight
\* to browser.close(), the full-page screenshot sits inside the if block.
IfServicesGridElseClose ==
    /\ pc = "ifServicesGrid"
    /\ pc' = IF servicesGrid = "element" THEN "boundingBox" ELSE "close"
    /\ UNCHANGED <<inflight, awaiting, browser, closeCalls, pageInRoot, viewport,
                   servicesGrid, boundingBox, scrolledIntoView, files, stdout,
                   stderr, promise, trace>>
    /\ ScriptStep

\* if (servicesGrid) { ... }
IfServicesGrid ==
    /\ pc = "ifServicesGrid"
    /\ pc' = IF servicesGrid = "element" THEN "boundingBox" ELSE "screenshotFull"
    /\ UNCHANGED <<inflight, awaiting, browser, closeCalls, pageInRoot, viewport,
                   servicesGrid, boundingBox, scrolledIntoView, files, stdout, stderr, promise, trace>>
    /\ ScriptStep

\* Mutation of ClipThrows: a null bounding box skips the section screenshot.
ClipSkips ==
    /\ pc = "screenshotSection"
    /\ awaiting = "none"
    /\ promise = "pending"
    /\ boundingBox = "null"
    /\ pc' = "screenshotFull"
    /\ UNCHANGED <<inflight, awaiting, browser, closeCalls, pageInRoot, viewport,
                   servicesGrid, boundingBox, scrolledIntoView, files, stdout,
                   stderr, promise, trace>>
    /\ ScriptStep

\* Building the clip object reads boundingBox.x: a TypeError when it is null.
ClipThrows ==
    /\ pc = "screenshotSection"
    /\ awaiting = "none"
    /\ promise = "pending"
    /\ boundingBox = "null"
    /\ pc' = "thrown"
    /\ promise' = "rejected"
    /\ UNCHANGED <<inflight, awaiting, browser, closeCalls, pageInRoot, viewport,
                   servicesGrid, boundingBox, scrolledIntoView, files, stdout, stderr, trace>>
    /\ ScriptStep

Log(at, msg, to) ==
    /\ pc = at
    /\ awaiting = "none"
    /\ stdout' = Append(stdout, msg)
    /\ pc' = to
    /\ UNCHANGED <<inflight, awaiting, browser, closeCalls, pageInRoot, viewport,
                   servicesGrid, boundingBox, scrolledIntoView, files, stderr, promise, trace>>
    /\ ScriptStep

LogSection == Log("logSection", MsgSection, "screenshotFull")
LogFull == Log("logFull", MsgFullPage, "close")

\* End of the body of takeScreenshot: the promise resolves.
Return ==
    /\ pc = "return"
    /\ awaiting = "none"
    /\ promise = "pending"
    /\ promise' = "resolved"
    /\ pc' = "then"
    /\ UNCHANGED <<inflight, awaiting, browser, closeCalls, pageInRoot, viewport,
                   servicesGrid, boundingBox, scrolledIntoView, files, stdout, stderr, trace>>
    /\ ScriptStep

\* .then(() => analyzeAndSuggestChanges())
analyzeAndSuggestChanges ==
    /\ pc = "then"
    /\ promise = "resolved"
    /\ stdout' = stdout \o <<MsgAnalysis, MsgFilesCreated>>
    /\ pc' = "done"
    /\ UNCHANGED <<inflight, awaiting, browser, closeCalls, pageInRoot, viewport,
                   servicesGrid, boundingBox, scrolledIntoView, files, stderr, promise, trace>>
    /\ ScriptStep

\* Mutation of Catch: the rejection is swallowed, console.error is not called.
CatchSwallow ==
    /\ pc = "thrown"
    /\ promise = "rejected"
    /\ pc' = "done"
    /\ UNCHANGED <<inflight, awaiting, browser, closeCalls, pageInRoot, viewport,
                   servicesGrid, boundingBox, scrolledIntoView, files, stdout,
                   stderr, promise, trace>>
    /\ ScriptStep

\* Mutation of Catch: the handler also closes the browser, as a cleanup would.
CatchCloses ==
    /\ pc = "thrown"
    /\ promise = "rejected"
    /\ stderr' = stderr + 1
    /\ browser' = IF browser = "open" THEN "closed" ELSE browser
    /\ closeCalls' = closeCalls + 1
    /\ pc' = "done"
    /\ UNCHANGED <<inflight, awaiting, pageInRoot, viewport, servicesGrid,
                   boundingBox, scrolledIntoView, files, stdout, promise, trace>>
    /\ ScriptStep

\* .catch(console.error)
Catch ==
    /\ pc = "thrown"
    /\ promise = "rejected"
    /\ stderr' = stderr + 1
    /\ pc' = "done"
    /\ UNCHANGED <<inflight, awaiting, browser, closeCalls, pageInRoot, viewport,
                   servicesGrid, boundingBox, scrolledIntoView, files, stdout, promise, trace>>
    /\ ScriptStep

ScriptInit ==
    /\ pc = "launch"
    /\ inflight = {}
    /\ awaiting = "none"
    /\ browser = "none"
    /\ closeCalls = 0
    /\ pageInRoot \in BOOLEAN
    /\ viewport = <<>>
    /\ servicesGrid = "unset"
    /\ boundingBox = "unset"
    /\ scrolledIntoView = "unset"
    /\ files = {}
    /\ stdout = <<>>
    /\ stderr = 0
    /\ promise = "pending"
    /\ trace = <<>>

ScriptNext ==
    \/ Launch
    \/ NewPage
    \/ SetViewport
    \/ Goto
    \/ Wait1
    \/ Evaluate
    \/ Wait2
    \/ Query
    \/ IfServicesGrid
    \/ BoundingBox
    \/ ClipThrows
    \/ ScreenshotSection
    \/ LogSection
    \/ ScreenshotFull
    \/ LogFull
    \/ Close
    \/ Return
    \/ analyzeAndSuggestChanges
    \/ Catch
    \/ \E op \in Ops : Resolve(op)
    \/ \E op \in Ops : Reject(op)

Printed(msg) == \E i \in 1..Len(stdout) : stdout[i] = msg

\* C1: a finished run has exactly one outcome: takeScreenshot resolved and the
\* analysis was printed, or the rejection was printed once by console.error;
\* the analysis is never printed after a rejection and no rejection of an
\* awaited step ends the run unreported.
C1_ExactlyOneOutcome ==
    /\ Printed(MsgAnalysis) => promise = "resolved" /\ stderr = 0
    /\ stderr > 0 => promise = "rejected" /\ stderr = 1 /\ ~Printed(MsgAnalysis)
    /\ pc = "done" => (Printed(MsgAnalysis) \/ stderr = 1)
    /\ promise = "rejected" /\ pc = "done" => stderr = 1

\* A run that failed after the section screenshot was written and reported it.
C1_Witness ==
    /\ pc = "done"
    /\ promise = "rejected"
    /\ stderr = 1
    /\ SectionFile \in files
    /\ ~Printed(MsgAnalysis)

\* C2: at most one browser operation or timer wait is in flight at any time,
\* so each one starts only after the previous one has settled.
C2_NoConcurrency ==
    /\ Cardinality(inflight) <= 1
    /\ inflight # {} => awaiting \in inflight

\* The full-page screenshot is in flight, alone, after the section screenshot
\* has settled.
C2_Witness ==
    /\ inflight = {"screenshotFull"}
    /\ SectionFile \in files

\* C3: when the 'Files created' list has been printed, both listed files were
\* written by takeScreenshot in this run.
C3_ListedFilesWritten ==
    Printed(MsgFilesCreated) => {SectionFile, FullPageFile} \subseteq files

(***************************************************************************)
(* Part 2.  stackbit.config.ts and the logo detection report               *)
(***************************************************************************)

\* A field declaration; `items` holds the fields of a list's item object.
Field(n, t) == [name |-> n, type |-> t, required |-> TRUE, items |-> <<>>]
ListField(n, itemFields) ==
    [name |-> n, type |-> "list", required |-> FALSE, items |-> itemFields]

contentDirs == {"_data"}

ClientItemFields ==
    <<Field("name", "string"), Field("logo", "image"), Field("alt", "string")>>

\* Mutation of models: the Clients model is declared on the Services file.
modelsSharedFile ==
    << [name |-> "Hero", type |-> "data", file |-> <<"_data", "hero.yml">>,
        fields |-> <<Field("headline", "string"), Field("subheadline", "text"),
                     Field("primary_button", "string"),
                     Field("secondary_button", "string")>>],
       [name |-> "SiteConfig", type |-> "data", file |-> <<"_data", "site.yml">>,
        fields |-> <<Field("company_name", "string"), Field("tagline", "string"),
                     Field("phone", "string"), Field("email", "string")>>],
       [name |-> "Services", type |-> "data", file |-> <<"_data", "services.yml">>,
        fields |-> <<Field("title", "string"), Field("description", "text"),
                     ListField("items",
                        <<Field("name", "string"), Field("description", "text"),
                          Field("icon", "string")>>)>>],
       [name |-> "Clients", type |-> "data", file |-> <<"_data", "services.yml">>,
        fields |-> <<Field("title", "string"),
                     ListField("tier1", ClientItemFields),
                     ListField("tier2", ClientItemFields),
                     ListField("tier3", ClientItemFields)>>] >>

\* GitContentSource.models
models ==
    << [name |-> "Hero", type |-> "data", file |-> <<"_data", "hero.yml">>,
        fields |-> <<Field("headline", "string"), Field("subheadline", "text"),
                     Field("primary_button", "string"),
                     Field("secondary_button", "string")>>],
       [name |-> "SiteConfig", type |-> "data", file |-> <<"_data", "site.yml">>,
        fields |-> <<Field("company_name", "string"), Field("tagline", "string"),
                     Field("phone", "string"), Field("email", "string")>>],
       [name |-> "Services", type |-> "data", file |-> <<"_data", "services.yml">>,
        fields |-> <<Field("title", "string"), Field("description", "text"),
                     ListField("items",
                        <<Field("name", "string"), Field("description", "text"),
                          Field("icon", "string")>>)>>],
       [name |-> "Clients", type |-> "data", file |-> <<"_data", "clients.yml">>,
        fields |-> <<Field("title", "string"),
                     ListField("tier1", ClientItemFields),
                     ListField("tier2", ClientItemFields),
                     ListField("tier3", ClientItemFields)>>] >>

ModelFiles == {models[i].file : i \in 1..Len(models)}

\* The item fields the model `m` declares for its list field `list`.
ItemFieldsOf(m, list) ==
    LET idx == {i \in 1..Len(m.fields) : m.fields[i].name = list}
    IN  IF idx = {} THEN <<>> ELSE m.fields[CHOOSE i \in idx : TRUE].items

ClientsModel == models[CHOOSE i \in 1..Len(models) : models[i].name = "Clients"]

\* --- Logo detection report ---------------------------------------------

TotalLogosProcessed == 22
RegionsIdentified == 24
RegionsAssigned == 22

Entry(s, c, f) == [sector |-> s, company |-> c, file |-> f]

\* Mutation of Portfolio: logo_02.png is listed for both Los Alamos entries.
PortfolioDuplicateFile ==
    << Entry("Federal", "NASA", 9),
       Entry("Federal", "U.S. Department of Energy", 6),
       Entry("Federal", "Los Alamos National Laboratory", 2),
       Entry("Federal", "Los Alamos National Laboratory (Research)", 2),
       Entry("Government/Municipal", "New Mexico Department of Transportation", 1),
       Entry("Government/Municipal", "Colorado Springs Utilities", 3),
       Entry("Major Engineering Firms", "Bechtel Corporation", 16),
       Entry("Major Engineering Firms", "AECOM", 17),
       Entry("Major Engineering Firms", "Stantec", 11),
       Entry("Major Engineering Firms", "MWH Global", 13),
       Entry("Major Engineering Firms", "Wilson & Company", 4),
       Entry("Major Engineering Firms", "RMF Engineering", 5),
       Entry("Major Engineering Firms", "SET Inc.", 14),
       Entry("Major Engineering Firms", "Raytheon Company", 22),
       Entry("Construction/Contractors", "Cross Connection Inc.", 7),
       Entry("Construction/Contractors", "RED Rochester LLC", 8),
       Entry("Construction/Contractors", "Frank Lill & Son Inc.", 10),
       Entry("Construction/Contractors", "Futures Mechanical", 12),
       Entry("Construction/Contractors", "DLS Construction", 18),
       Entry("Construction/Contractors", "Twenty20 Construction", 19),
       Entry("Construction/Contractors", "Pueblo Electric Inc.", 21),
       Entry("Academic", "UCLA", 15) >>

\* "Client Portfolio Successfully Extracted": sector, company, logo_NN.png.
Portfolio ==
    << Entry("Federal", "NASA", 9),
       Entry("Federal", "U.S. Department of Energy", 6),
       Entry("Federal", "Los Alamos National Laboratory", 2),
       Entry("Federal", "Los Alamos National Laboratory (Research)", 20),
       Entry("Government/Municipal", "New Mexico Department of Transportation", 1),
       Entry("Government/Municipal", "Colorado Springs Utilities", 3),
       Entry("Major Engineering Firms", "Bechtel Corporation", 16),
       Entry("Major Engineering Firms", "AECOM", 17),
       Entry("Major Engineering Firms", "Stantec", 11),
       Entry("Major Engineering Firms", "MWH Global", 13),
       Entry("Major Engineering Firms", "Wilson & Company", 4),
       Entry("Major Engineering Firms", "RMF Engineering", 5),
       Entry("Major Engineering Firms", "SET Inc.", 14),
       Entry("Major Engineering Firms", "Raytheon Company", 22),
       Entry("Construction/Contractors", "Cross Connection Inc.", 7),
       Entry("Construction/Contractors", "RED Rochester LLC", 8),
       Entry("Construction/Contractors", "Frank Lill & Son Inc.", 10),
       Entry("Construction/Contractors", "Futures Mechanical", 12),
       Entry("Construction/Contractors", "DLS Construction", 18),
       Entry("Construction/Contractors", "Twenty20 Construction", 19),
       Entry("Construction/Contractors", "Pueblo Electric Inc.", 21),
       Entry("Academic", "UCLA", 15) >>

Sectors == {"Federal", "Government/Municipal", "Major Engineering Firms",
            "Construction/Contractors", "Academic"}

\* The number each sector heading states: "### Federal Sector (4 logos)", ...
SectorHeading ==
    [s \in Sectors |->
        CASE s = "Federal" -> 4
          [] s = "Government/Municipal" -> 2
          [] s = "Major Engineering Firms" -> 8
          [] s = "Construction/Contractors" -> 6
          [] s = "Academic" -> 1]

Companies == {Portfolio[i].company : i \in 1..Len(Portfolio)}

\* Mutation of TierLayout: SET is listed in tier 2 as well as in tier 3.
TierLayoutSetTwice ==
    [tier1 |-> <<"NASA", "DOE", "Los Alamos">>,
     tier2 |-> <<"Stantec", "Bechtel", "NM DOT", "AECOM", "Raytheon", "MWH",
                 "Wilson", "SET">>,
     tier3 |-> <<"UCLA", "Colorado Springs", "Cross Connection", "RED Rochester",
                 "Frank Lill", "Futures", "SET", "DLS", "Twenty20",
                 "Los Alamos Research", "Pueblo Electric">>]

\* "Visual Layout": the clients of each tier, as the report abbreviates them.
TierLayout ==
    [tier1 |-> <<"NASA", "DOE", "Los Alamos">>,
     tier2 |-> <<"Stantec", "Bechtel", "NM DOT", "AECOM", "Raytheon", "MWH",
                 "Wilson", "RMF">>,
     tier3 |-> <<"UCLA", "Colorado Springs", "Cross Connection", "RED Rochester",
                 "Frank Lill", "Futures", "SET", "DLS", "Twenty20",
                 "Los Alamos Research", "Pueblo Electric">>]

Tiers == {"tier1", "tier2", "tier3"}

\* The portfolio company an abbreviated name of the layout stands for.
Company(short) ==
    CASE short = "NASA" -> "NASA"
      [] short = "DOE" -> "U.S. Department of Energy"
      [] short = "Los Alamos" -> "Los Alamos National Laboratory"
      [] short = "Los Alamos Research" -> "Los Alamos National Laboratory (Research)"
      [] short = "NM DOT" -> "New Mexico Department of Transportation"
      [] short = "Colorado Springs" -> "Colorado Springs Utilities"
      [] short = "Bechtel" -> "Bechtel Corporation"
      [] short = "AECOM" -> "AECOM"
      [] short = "Stantec" -> "Stantec"
      [] short = "MWH" -> "MWH Global"
      [] short = "Wilson" -> "Wilson & Company"
      [] short = "RMF" -> "RMF Engineering"
      [] short = "SET" -> "SET Inc."
      [] short = "Raytheon" -> "Raytheon Company"
      [] short = "Cross Connection" -> "Cross Connection Inc."
      [] short = "RED Rochester" -> "RED Rochester LLC"
      [] short = "Frank Lill" -> "Frank Lill & Son Inc."
      [] short = "Futures" -> "Futures Mechanical"
      [] short = "DLS" -> "DLS Construction"
      [] short = "Twenty20" -> "Twenty20 Construction"
      [] short = "Pueblo Electric" -> "Pueblo Electric Inc."
      [] short = "UCLA" -> "UCLA"
      [] OTHER -> "unknown"

\* The logo file number the portfolio lists for a company (0 when none).
LogoOf(company) ==
    LET idx == {i \in 1..Len(Portfolio) : Portfolio[i].company = company}
    IN  IF idx = {} THEN 0 ELSE Portfolio[CHOOSE i \in idx : TRUE].file

\* --- The content source and the _data/clients.yml document ---------------

\* The content source registers one declared model.
RegisterModel(i) ==
    /\ i \in 1..Len(models)
    /\ i \notin registered
    /\ registered' = registered \cup {i}
    /\ owner' = [owner EXCEPT ![models[i].file] = @ \cup {models[i].name}]
    /\ UNCHANGED clientsYml
    /\ SiteStep

\* The item of a tier list for a client of the layout, shaped by the schema
\* the Clients model declares for that list.
Item(t, short) ==
    LET fs == ItemFieldsOf(ClientsModel, t)
    IN  [n \in {fs[i].name : i \in 1..Len(fs)} |->
            CASE n = "name" -> Company(short)
              [] n = "logo" -> LogoOf(Company(short))
              [] OTHER -> short]

\* The next client of the layout is entered in its tier list.
AddClient(t) ==
    /\ \E i \in registered : models[i].name = "Clients"
    /\ Len(clientsYml[t]) < Len(TierLayout[t])
    /\ clientsYml' = [clientsYml EXCEPT
                        ![t] = Append(@, Item(t, TierLayout[t][Len(@) + 1]))]
    /\ UNCHANGED <<registered, owner>>
    /\ SiteStep

SiteInit ==
    /\ registered = {}
    /\ owner = [f \in ModelFiles |-> {}]
    /\ clientsYml = [t \in Tiers |-> <<>>]

SiteNext ==
    \/ \E i \in 1..Len(models) : RegisterModel(i)
    \/ \E t \in Tiers : AddClient(t)

\* --- Detection and assignment as the report records them -----------------

IdentifyRegion ==
    /\ identified < RegionsIdentified
    /\ identified' = identified + 1
    /\ UNCHANGED <<assigned, assignment, sectorCount>>
    /\ ReportStep

\* The next portfolio entry: an identified region is assigned to a company.
AssignLogo ==
    /\ assigned < RegionsAssigned
    /\ assigned < Len(Portfolio)
    /\ assigned < identified
    /\ LET e == Portfolio[assigned + 1]
       IN  /\ assignment' = assignment \cup {<<e.company, e.file>>}
           /\ sectorCount' = [sectorCount EXCEPT ![e.sector] = @ + 1]
    /\ assigned' = assigned + 1
    /\ UNCHANGED identified
    /\ ReportStep

ReportInit ==
    /\ identified = 0
    /\ assigned = 0
    /\ assignment = {}
    /\ sectorCount = [s \in Sectors |-> 0]

ReportNext ==
    \/ IdentifyRegion
    \/ AssignLogo

(***************************************************************************)
(* Part 3.  The logo-extraction pipeline                                   *)
(***************************************************************************)

MaxBlobs == 2

\* Validation thresholds of the report.
MinScore == 70
MinArea == 1000
MaxArea == 40000
MinAspectTenths == 5
MaxAspectTenths == 60
MinDensityPercent == 5

\* Bounding boxes <<width, height>> on both sides of every threshold.
Boxes == { <<50, 20>>, <<37, 27>>, <<200, 200>>, <<201, 200>>,
           <<29, 60>>, <<241, 40>> }
Densities == {5, 6}
Scores == {69, 70}
RowYs == {0, 100}

\* Mutation of Valid: the aspect-ratio criterion is not applied.
ValidNoAspect(c, score) ==
    /\ score >= MinScore
    /\ c.w * c.h >= MinArea
    /\ c.w * c.h <= MaxArea
    /\ c.density > MinDensityPercent

\* A cropped region passes validation: score, size, aspect ratio, density.
Valid(c, score) ==
    /\ score >= MinScore
    /\ c.w * c.h >= MinArea
    /\ c.w * c.h <= MaxArea
    /\ 10 * c.w >= MinAspectTenths * c.h
    /\ 10 * c.w <= MaxAspectTenths * c.h
    /\ c.density > MinDensityPercent

\* detect: one more blob is found in the image.
DetectBlob ==
    /\ stage = "detect"
    /\ Len(blobs) < MaxBlobs
    /\ \E b \in Boxes, d \in Densities, y \in RowYs :
          blobs' = Append(blobs, [box |-> b, density |-> d, y |-> y])
    /\ UNCHANGED <<stage, stagesRun, rows, crops, verdict, written>>
    /\ PipeStep

\* cluster: the blobs are grouped by rows.
Cluster ==
    /\ stage = "detect"
    /\ rows' = [i \in 1..Len(blobs) |-> IF blobs[i].y = 0 THEN 1 ELSE 2]
    /\ stage' = "cluster"
    /\ stagesRun' = Append(stagesRun, "detect")
    /\ UNCHANGED <<blobs, crops, verdict, written>>
    /\ PipeStep

\* crop: every clustered blob is cropped to its bounding box.
Crop ==
    /\ stage = "cluster"
    /\ crops' = [i \in 1..Len(blobs) |->
                    [w |-> blobs[i].box[1], h |-> blobs[i].box[2],
                     density |-> blobs[i].density]]
    /\ stage' = "crop"
    /\ stagesRun' = Append(stagesRun, "cluster")
    /\ UNCHANGED <<blobs, rows, verdict, written>>
    /\ PipeStep

\* validate: every crop is scored and checked against the heuristic.
Validate ==
    /\ stage = "crop"
    /\ \E sc \in [1..Len(crops) -> Scores] :
          verdict' = [i \in 1..Len(crops) |->
                        [score |-> sc[i], ok |-> Valid(crops[i], sc[i])]]
    /\ stage' = "validate"
    /\ stagesRun' = Append(stagesRun, "crop")
    /\ UNCHANGED <<blobs, rows, crops, written>>
    /\ PipeStep

\* write: a PNG is written for every crop that passed.
WritePngs ==
    /\ stage = "validate"
    /\ written' = {i \in 1..Len(crops) : verdict[i].ok}
    /\ stage' = "write"
    /\ stagesRun' = Append(stagesRun, "validate")
    /\ UNCHANGED <<blobs, rows, crops, verdict>>
    /\ PipeStep

Finish ==
    /\ stage = "write"
    /\ stage' = "done"
    /\ stagesRun' = Append(stagesRun, "write")
    /\ UNCHANGED <<blobs, rows, crops, verdict, written>>
    /\ PipeStep

PipeInit ==
    /\ stage = "detect"
    /\ stagesRun = <<>>
    /\ blobs = <<>>
    /\ rows = <<>>
    /\ crops = <<>>
    /\ verdict = <<>>
    /\ written = {}

PipeNext ==
    \/ DetectBlob
    \/ Cluster
    \/ Crop
    \/ Validate
    \/ WritePngs
    \/ Finish

(***************************************************************************)
(* Part 4.  FILE_MOVEMENT_LOG.md                                           *)
(***************************************************************************)

Root == "root"
MainSiteVersions == "html-versions/main-site-versions"
TestLayouts == "html-versions/test-layouts"
GranalyticV3 == "html-versions/granalytic-v3"
LogoExtractors == "python-scripts/logo-extractors"
Utilities == "python-scripts/utilities"
Reports == "documentation/reports"
Guides == "documentation/guides"
Previews == "temp-files/previews"
Debug == "temp-files/debug"

\* "Archive Structure": the subdirectories of the archive directory.
ArchiveDirs == {MainSiteVersions, TestLayouts, GranalyticV3, LogoExtractors,
                Utilities, Reports, Guides, Previews, Debug}

\* Mutation of KeptInRoot: index-v3.html is also listed as kept in the root.
KeptInRootWithV3 ==
    << "index.html", "README.md", "CLAUDE.md", "PROJECT_SUMMARY.md",
       "DEPLOYMENT_GUIDE.md", "netlify.toml", "package.json",
       "package-lock.json", "logo.png", "implement_layout_choice.py",
       "update_website_logos.py", "logos/", "source-documents/", "index-v3.html" >>

\* "Files Kept in Root"
KeptInRoot ==
    << "index.html", "README.md", "CLAUDE.md", "PROJECT_SUMMARY.md",
       "DEPLOYMENT_GUIDE.md", "netlify.toml", "package.json",
       "package-lock.json", "logo.png", "implement_layout_choice.py",
       "update_website_logos.py", "logos/", "source-documents/", ".gitignore" >>

\* "File Movements": <<file, destination>>, in the order of the log.
Movements ==
    << <<"index-old-backup.html", MainSiteVersions>>,
       <<"index-draft-modified.html", MainSiteVersions>>,
       <<"index-v3.html", MainSiteVersions>>,
       <<"index-v4-eunexus-inspired.html", MainSiteVersions>>,
       <<"index-construction-inspired.html", MainSiteVersions>>,
       <<"about-section-options.html", TestLayouts>>,
       <<"client-logos-masonry-test.html", TestLayouts>>,
       <<"leadership-layout-test.html", TestLayouts>>,
       <<"logo_layout_options.html", TestLayouts>>,
       <<"option3_hexagonal.html", TestLayouts>>,
       <<"option5_spotlight_outline.html", TestLayouts>>,
       <<"simplified_tiered_layout.html", TestLayouts>>,
       <<"blob_extraction_preview.html", Previews>>,
       <<"enhanced_detection_preview_v2.html", Previews>>,
       <<"logo_validation.html", Previews>>,
       <<"spaced_logo_validation.html", Previews>>,
       <<"granalytic-v3/", GranalyticV3>>,
       <<"advanced_logo_extractor.py", LogoExtractors>>,
       <<"background_remover.py", LogoExtractors>>,
       <<"blob_center_detector.py", LogoExtractors>>,
       <<"enhanced_logo_detector_v2.py", LogoExtractors>>,
       <<"improved_logo_extractor.py", LogoExtractors>>,
       <<"logo_color_converter.py", LogoExtractors>>,
       <<"logo_extractor.py", LogoExtractors>>,
       <<"refined_background_remover.py", LogoExtractors>>,
       <<"refined_logo_extractor.py", LogoExtractors>>,
       <<"spaced_logo_extractor.py", LogoExtractors>>,
       <<"implement_layout_choice.py", Root>>,
       <<"update_website_logos.py", Root>>,
       <<"DATA_CENTER_PROJECTS_RESEARCH.md", Reports>>,
       <<"LOGO_DETECTION_REPORT.md", Reports>>,
       <<"LOGO_LAYOUT_GUIDE.md", Guides>>,
       <<"blob_detection_debug.png", Debug>>,
       <<"detection_preview.png", Debug>>,
       <<"refined_extraction_preview.png", Debug>>,
       <<"client-logos-collection.png", Debug>>,
       <<"client-logos-collection-v2.png", Debug>>,
       <<"current-full-page.png", Debug>>,
       <<"current-services-section.png", Debug>>,
       <<"enhanced_detection_results_v2.json", Debug>>,
       <<"enhanced-logo-mapping-v2.json", Debug>>,
       <<"validation_report.json", Debug>> >>

LoggedFiles == {Movements[i][1] : i \in 1..Len(Movements)}
                  \cup {KeptInRoot[i] : i \in 1..Len(KeptInRoot)}

\* The next entry of "File Movements" is carried out and recorded.
MoveFile ==
    /\ moved < Len(Movements)
    /\ LET e == Movements[moved + 1]
       IN  location' = [location EXCEPT ![e[1]] = @ \cup {e[2]}]
    /\ moved' = moved + 1
    /\ UNCHANGED kept
    /\ CleanupStep

\* The next entry of "Files Kept in Root" is recorded.
KeepFile ==
    /\ kept < Len(KeptInRoot)
    /\ location' = [location EXCEPT ![KeptInRoot[kept + 1]] = @ \cup {Root}]
    /\ kept' = kept + 1
    /\ UNCHANGED moved
    /\ CleanupStep

CleanupInit ==
    /\ moved = 0
    /\ kept = 0
    /\ location = [f \in LoggedFiles |-> {}]

CleanupNext ==
    \/ MoveFile
    \/ KeepFile

(***************************************************************************)
(* Specifications                                                          *)
(***************************************************************************)

Init == ScriptInit /\ SiteInit /\ ReportInit /\ PipeInit /\ CleanupInit

\* Initial state of the specifications in which the script does not run.
InitNoRun == Init /\ pageInRoot

SpecScript == Init /\ [][ScriptNext]_vars

\* Every pending call eventually settles and the event loop runs every step
\* that is ready.
SpecScriptFair == Init /\ [][ScriptNext]_vars /\ WF_vars(ScriptNext)

SpecSite == InitNoRun /\ [][SiteNext]_vars

SpecReport == InitNoRun /\ [][ReportNext]_vars

SpecPipeline == InitNoRun /\ [][PipeNext]_vars

SpecCleanup == InitNoRun /\ [][CleanupNext]_vars

(***************************************************************************)
(* Part 5.  The script run in the repository layout of the cleanup         *)
(***************************************************************************)

\* The page takeScreenshot navigates to, resolved against __dirname.
PageFile == "index-v3.html"

ScriptNotStarted == trace = <<>> /\ pc = "launch"

CleanupNotStarted == moved = 0 /\ kept = 0

\* Mutation of ArchiveMovePage: the page is copied to the archive and its
\* original stays in the root.
ArchiveCopyPage ==
    /\ ScriptNotStarted
    /\ moved < Len(Movements)
    /\ Movements[moved + 1][1] = PageFile
    /\ location' = [location EXCEPT ![PageFile] = @ \cup {Movements[moved + 1][2]}]
    /\ moved' = moved + 1
    /\ UNCHANGED <<kept, scriptVars, siteVars, reportVars, pipeVars>>

\* The movement of index-v3.html takes the page out of the script's directory.
ArchiveMovePage ==
    /\ ScriptNotStarted
    /\ moved < Len(Movements)
    /\ Movements[moved + 1][1] = PageFile
    /\ location' = [location EXCEPT ![PageFile] = @ \cup {Movements[moved + 1][2]}]
    /\ moved' = moved + 1
    /\ pageInRoot' = (Movements[moved + 1][2] = Root)
    /\ UNCHANGED <<pc, inflight, awaiting, browser, closeCalls, viewport,
                   servicesGrid, boundingBox, scrolledIntoView, files, stdout,
                   stderr, promise, trace>>
    /\ UNCHANGED <<kept, siteVars, reportVars, pipeVars>>

\* The movement of any other file.
ArchiveMoveFile ==
    /\ ScriptNotStarted
    /\ moved < Len(Movements)
    /\ Movements[moved + 1][1] # PageFile
    /\ MoveFile

ArchiveKeepFile ==
    /\ ScriptNotStarted
    /\ KeepFile

\* The script is run from the root, before the cleanup or after it.
RunScript ==
    /\ CleanupNotStarted \/ (moved = Len(Movements) /\ kept = Len(KeptInRoot))
    /\ ScriptNext

LayoutNext ==
    \/ ArchiveMovePage
    \/ ArchiveMoveFile
    \/ ArchiveKeepFile
    \/ RunScript

SpecLayout == InitNoRun /\ [][LayoutNext]_vars

(***************************************************************************)
(* Properties                                                              *)
(***************************************************************************)

AllRegistered == registered = 1..Len(models)

\* C4: every registered model has type 'data' and a file directly inside the
\* single content directory '_data'; model names and model files are pairwise
\* distinct, so no content file has two owners, and once the four models
\* Hero, SiteConfig, Services, Clients are registered every content file has
\* exactly one.
C4_FlatDataModels ==
    /\ contentDirs = {"_data"}
    /\ \A i \in registered :
          /\ models[i].type = "data"
          /\ Len(models[i].file) = 2
          /\ models[i].file[1] \in contentDirs
    /\ \A i, j \in registered :
          i # j => models[i].name # models[j].name /\ models[i].file # models[j].file
    /\ \A f \in DOMAIN owner : Cardinality(owner[f]) <= 1
    /\ AllRegistered =>
          /\ {models[i].name : i \in registered}
                = {"Hero", "SiteConfig", "Services", "Clients"}
          /\ Cardinality(registered) = 4
          /\ \A f \in DOMAIN owner : Cardinality(owner[f]) = 1

\* All four models are registered and each file has its owner.
C4_Witness ==
    /\ registered = {1, 2, 3, 4}
    /\ \E f \in DOMAIN owner : owner[f] = {"Clients"}
    /\ \E f \in DOMAIN owner : owner[f] = {"Hero"}

ReportComplete == identified = RegionsIdentified /\ assigned = Len(Portfolio)

\* C6: when detection and assignment are complete every identified region has
\* been assigned to a company: the number of identified regions equals the
\* number of assigned logos, 22.
C6_DetectedEqualsAssigned ==
    ReportComplete => identified = assigned /\ assigned = 22

\* C7: the assignment of logo files to companies is one-to-one: no file has
\* two companies, no company two files, and when the portfolio is complete
\* the files are exactly logo_01 .. logo_22.
C7_OneToOne ==
    /\ \A p, q \in assignment : (p[1] = q[1]) <=> (p[2] = q[2])
    /\ \A p \in assignment : p[2] \in 1..22
    /\ Cardinality(assignment) = assigned
    /\ assigned = Len(Portfolio) =>
          /\ {p[2] : p \in assignment} = 1..22
          /\ Cardinality({p[1] : p \in assignment}) = 22

\* The portfolio has been assigned completely.
C7_Witness ==
    /\ assigned = Len(Portfolio)
    /\ <<"UCLA", 15>> \in assignment
    /\ <<"Los Alamos National Laboratory (Research)", 20>> \in assignment

\* C8: when the portfolio is complete each sector lists as many logos as its
\* heading states (4, 2, 8, 6, 1) and the headings add up to the 22 logos
\* processed.
C8_SectorCounts ==
    assigned = Len(Portfolio) =>
        /\ \A s \in Sectors : sectorCount[s] = SectorHeading[s]
        /\ SectorHeading["Federal"] = 4
        /\ SectorHeading["Government/Municipal"] = 2
        /\ SectorHeading["Major Engineering Firms"] = 8
        /\ SectorHeading["Construction/Contractors"] = 6
        /\ SectorHeading["Academic"] = 1
        /\ SectorHeading["Federal"] + SectorHeading["Government/Municipal"]
             + SectorHeading["Major Engineering Firms"]
             + SectorHeading["Construction/Contractors"]
             + SectorHeading["Academic"] = TotalLogosProcessed

TierPositions == UNION {{<<t, i>> : i \in 1..Len(clientsYml[t])} : t \in Tiers}

TiersComplete == \A t \in Tiers : Len(clientsYml[t]) = Len(TierLayout[t])

\* C9: the items of tier1, tier2 and tier3 are declared with the same schema
\* (name: string, logo: image, alt: string, all required); every item is one
\* of the 22 extracted clients and no client is entered twice, in the same or
\* in another tier; the complete layout holds 3 + 8 + 11 items covering all
\* 22 clients.
C9_TierPartition ==
    /\ \A t \in Tiers :
          ItemFieldsOf(ClientsModel, t) =
             << [name |-> "name", type |-> "string", required |-> TRUE, items |-> <<>>],
                [name |-> "logo", type |-> "image", required |-> TRUE, items |-> <<>>],
                [name |-> "alt", type |-> "string", required |-> TRUE, items |-> <<>>] >>
    /\ \A p \in TierPositions :
          /\ DOMAIN clientsYml[p[1]][p[2]] = {"name", "logo", "alt"}
          /\ clientsYml[p[1]][p[2]].name \in Companies
          /\ clientsYml[p[1]][p[2]].logo \in 1..22
    /\ \A p, q \in TierPositions :
          p # q => clientsYml[p[1]][p[2]].name # clientsYml[q[1]][q[2]].name
    /\ TiersComplete =>
          /\ Len(clientsYml["tier1"]) = 3
          /\ Len(clientsYml["tier2"]) = 8
          /\ Len(clientsYml["tier3"]) = 11
          /\ {clientsYml[p[1]][p[2]].name : p \in TierPositions} = Companies
          /\ Cardinality(Companies) = 22

\* The three tier lists are complete.
C9_Witness ==
    /\ TiersComplete
    /\ clientsYml["tier1"][3].name = "Los Alamos National Laboratory"
    /\ clientsYml["tier3"][10].name = "Los Alamos National Laboratory (Research)"

CleanupComplete == moved = Len(Movements) /\ kept = Len(KeptInRoot)

\* C10: the log gives no file two locations (neither two archive
\* subdirectories nor an archive subdirectory and the root), every location is
\* a subdirectory of the archive structure or the root, and after the cleanup
\* every listed file has exactly one.
C10_OneFinalLocation ==
    /\ \A f \in DOMAIN location :
          /\ Cardinality(location[f]) <= 1
          /\ location[f] \subseteq ArchiveDirs \cup {Root}
    /\ CleanupComplete =>
          \A f \in DOMAIN location : Cardinality(location[f]) = 1

\* The cleanup is complete: an archived file and a utility kept in the root.
C10_Witness ==
    /\ CleanupComplete
    /\ location["index-v3.html"] = {MainSiteVersions}
    /\ location["update_website_logos.py"] = {Root}
    /\ location["index.html"] = {Root}

Called(op) == \E i \in 1..Len(trace) : trace[i] = op

LastCalled == IF trace = <<>> THEN "none" ELSE trace[Len(trace)]

\* C11: browser.close() is called at most once and only after the full-page
\* screenshot was written and announced; a run whose promise was rejected by
\* any step other than close itself has not called close and its browser is
\* not closed, and no rejected run has a closed browser.
C11_CloseOnlyOnSuccess ==
    /\ closeCalls <= 1
    /\ closeCalls = 1 <=> Called("close")
    /\ Called("close") =>
          /\ FullPageFile \in files
          /\ Printed(MsgFullPage)
          /\ browser = "open" \/ browser = "closed"
    /\ promise = "rejected" /\ LastCalled # "close" =>
          closeCalls = 0 /\ browser # "closed"
    /\ promise = "rejected" => browser # "closed"
    /\ browser = "closed" => closeCalls = 1 /\ promise # "rejected"

\* The full-page screenshot rejected after the section screenshot was
\* written: the run is over and the launched browser is still open.
C11_Witness ==
    /\ pc = "done"
    /\ promise = "rejected"
    /\ stderr = 1
    /\ LastCalled = "screenshotFull"
    /\ browser = "open"
    /\ closeCalls = 0

\* C12: once boundingBox() has resolved to null for a found element, the run
\* can only reject while building the clip: no screenshot is called, no file
\* is written, nothing is printed with console.log (neither success message
\* nor the analysis), and the finished run has printed the error once.
C12_NullBoxRejects ==
    boundingBox = "null" =>
        /\ servicesGrid = "element"
        /\ pc \in {"screenshotSection", "thrown", "done"}
        /\ ~Called("screenshotSection")
        /\ ~Called("screenshotFull")
        /\ files = {}
        /\ ~Printed(MsgSection)
        /\ ~Printed(MsgFullPage)
        /\ ~Printed(MsgAnalysis)
        /\ promise # "resolved"
        /\ pc = "thrown" => promise = "rejected"
        /\ pc = "done" => promise = "rejected" /\ stderr = 1

\* The run with a null bounding box is over and its error was printed.
C12_Witness ==
    /\ boundingBox = "null"
    /\ servicesGrid = "element"
    /\ pc = "done"
    /\ promise = "rejected"
    /\ stderr = 1
    /\ LastCalled = "boundingBox"

\* The run is over and none of its awaited calls rejected: the promise
\* resolved, or it was rejected by the TypeError of the clip.
FinishedWithoutRejectedCall ==
    /\ pc = "done"
    /\ promise = "resolved" \/ boundingBox = "null"

\* C13 as stated: in a finished run none of whose calls rejected, the section
\* screenshot was taken if and only if page.$ found an element, and the
\* full-page screenshot was taken whether or not it found one.
C13_SectionIffElementFound ==
    FinishedWithoutRejectedCall =>
        /\ Called("screenshotSection") <=> servicesGrid = "element"
        /\ Called("screenshotFull")

\* C13, amended: the section screenshot is called exactly when page.$ found an
\* element and boundingBox() resolved to a box; without an element the step is
\* skipped without error, the full-page screenshot is the next call, and when
\* it and browser.close() resolve the browser is closed and the analysis
\* printed. The full-page screenshot is called only after the lookup found
\* nothing or after the section screenshot was written, and never after a null
\* bounding box.
C13_SectionIffElementWithBox ==
    /\ Called("screenshotSection") => servicesGrid = "element" /\ boundingBox = "box"
    /\ boundingBox = "box" /\ ~(pc = "screenshotSection" /\ awaiting = "none")
          => Called("screenshotSection")
    /\ SectionFile \in files => Called("screenshotSection")
    /\ servicesGrid = "null" =>
          /\ ~Called("boundingBox")
          /\ ~Called("screenshotSection")
          /\ pc # "ifServicesGrid" /\ ~(pc = "screenshotFull" /\ awaiting = "none")
                => Called("screenshotFull")
          /\ promise = "rejected" => LastCalled \in {"screenshotFull", "close"}
          /\ pc = "done" /\ promise = "resolved" =>
                /\ FullPageFile \in files
                /\ browser = "closed"
                /\ Printed(MsgAnalysis)
    /\ Called("screenshotFull") => servicesGrid = "null" \/ SectionFile \in files
    /\ boundingBox = "null" => ~Called("screenshotFull")
    /\ pc = "done" /\ promise = "resolved" =>
          /\ SectionFile \in files <=> servicesGrid = "element"
          /\ FullPageFile \in files

\* A finished run in which the in-page callback had found the grid but the
\* later lookup found none: only the full-page screenshot was written.
C13_Witness ==
    /\ pc = "done"
    /\ promise = "resolved"
    /\ scrolledIntoView = "yes"
    /\ servicesGrid = "null"
    /\ files = {FullPageFile}
    /\ browser = "closed"
    /\ Printed(MsgAnalysis)

IsPrefix(s, t) == Len(s) <= Len(t) /\ s = SubSeq(t, 1, Len(s))

\* The calls of a successful run, with and without the section screenshot.
SuccessWithSection ==
    <<"launch", "newPage", "setViewport", "goto", "wait1", "evaluate", "wait2",
      "$", "boundingBox", "screenshotSection", "screenshotFull", "close">>
SuccessWithoutSection ==
    <<"launch", "newPage", "setViewport", "goto", "wait1", "evaluate", "wait2",
      "$", "screenshotFull", "close">>

\* C14: the calls of a run are made in the order launch, newPage,
\* setViewport(1400x900), goto, first wait, in-page scroll, second wait,
\* lookup, optional section screenshot, full-page screenshot, close, each at
\* most once; the viewport is set before navigation, the section screenshot is
\* written before the full-page one is called, and the analysis is printed
\* once, last, after the browser was closed.
C14_EventOrder ==
    /\ IsPrefix(trace, SuccessWithSection) \/ IsPrefix(trace, SuccessWithoutSection)
    /\ \A i, j \in 1..Len(trace) : i # j => trace[i] # trace[j]
    /\ Called("goto") => viewport = <<1400, 900>>
    /\ Called("screenshotFull") /\ Called("screenshotSection") => SectionFile \in files
    /\ Printed(MsgAnalysis) =>
          /\ trace \in {SuccessWithSection, SuccessWithoutSection}
          /\ inflight = {}
          /\ browser = "closed"
          /\ files = IF Called("screenshotSection")
                     THEN {SectionFile, FullPageFile} ELSE {FullPageFile}
          /\ stdout = IF Called("screenshotSection")
                      THEN <<MsgSection, MsgFullPage, MsgAnalysis, MsgFilesCreated>>
                      ELSE <<MsgFullPage, MsgAnalysis, MsgFilesCreated>>
    /\ pc = "done" /\ promise = "resolved" => Printed(MsgAnalysis)

\* A successful run that took the section screenshot.
C14_Witness ==
    /\ pc = "done"
    /\ promise = "resolved"
    /\ trace = SuccessWithSection
    /\ stdout = <<MsgSection, MsgFullPage, MsgAnalysis, MsgFilesCreated>>

\* C15: a success message is printed only after the screenshot it names has
\* resolved and written its file; a run rejected by a screenshot call has not
\* printed that call's message.
C15_MessageAfterScreenshot ==
    /\ Printed(MsgSection) =>
          /\ SectionFile \in files
          /\ Called("screenshotSection")
          /\ "screenshotSection" \notin inflight
    /\ Printed(MsgFullPage) =>
          /\ FullPageFile \in files
          /\ Called("screenshotFull")
          /\ "screenshotFull" \notin inflight
    /\ promise = "rejected" /\ LastCalled = "screenshotSection" =>
          ~Printed(MsgSection) /\ SectionFile \notin files
    /\ promise = "rejected" /\ LastCalled = "screenshotFull" =>
          ~Printed(MsgFullPage) /\ FullPageFile \notin files

\* The section message was printed, then the full-page screenshot rejected.
C15_Witness ==
    /\ pc = "done"
    /\ promise = "rejected"
    /\ LastCalled = "screenshotFull"
    /\ Printed(MsgSection)
    /\ ~Printed(MsgFullPage)
    /\ files = {SectionFile}

Terminal == pc = "done" /\ (Printed(MsgAnalysis) \/ stderr = 1)

NoStepTwice ==
    /\ \A i, j \in 1..Len(trace) : i # j => trace[i] # trace[j]
    /\ \A i, j \in 1..Len(stdout) : i # j => stdout[i] # stdout[j]
    /\ stderr <= 1
    /\ closeCalls <= 1

\* C16: when every awaited call eventually settles, every run eventually
\* reaches a terminal outcome (analysis printed or error printed) and stays
\* there, and on the way no call or message is made twice.
C16_Terminates == <>[]Terminal /\ []NoStepTwice

\* A run that ended in the error outcome at its very last call.
C16_Witness ==
    /\ Terminal
    /\ stderr = 1
    /\ LastCalled = "close"
    /\ Len(trace) = 12
    /\ inflight = {}

\* C17: in the layout after the cleanup index-v3.html is in the archive and
\* not in the root and both output files of the script are archived as debug
\* files; a run of the script in that layout gets no further than goto: it
\* writes no screenshot, prints no analysis and ends with the error printed.
C17_RunAfterCleanupFails ==
    CleanupComplete =>
        /\ location[PageFile] = {MainSiteVersions}
        /\ Root \notin location[PageFile]
        /\ location[SectionFile] = {Debug}
        /\ location[FullPageFile] = {Debug}
        /\ ~pageInRoot
        /\ IsPrefix(trace, <<"launch", "newPage", "setViewport", "goto">>)
        /\ files = {}
        /\ stdout = <<>>
        /\ promise # "resolved"
        /\ pc = "done" => promise = "rejected" /\ stderr = 1

\* After the cleanup the script was run and failed at goto.
C17_Witness ==
    /\ CleanupComplete
    /\ pc = "done"
    /\ trace = <<"launch", "newPage", "setViewport", "goto">>
    /\ browser = "open"
    /\ stderr = 1
    /\ files = {}

====
